---- MODULE Spec2Model ----
(***************************************************************************)
(* Model of weekly/weekly/git_scanner.py: repository discovery             *)
(* (GitScanner.find_git_repos, GitRepo), the parallel scan                 *)
(* (GitScanner.scan_all / scan_repo over a ThreadPoolExecutor), the        *)
(* per-repository report step and the summary aggregation.                 *)
(*                                                                         *)
(* Strings that the code compares or lower-cases (directory names) are     *)
(* sequences of code points; a path relative to the root is the sequence   *)
(* of its segments.                                                        *)
(***************************************************************************)
EXTENDS Integers, Sequences, FiniteSets, TLC

VARIABLES
    rootExists,   \* whether root_dir exists on disk
    gitDirs,      \* the directories (relative paths) that directly hold a .git
    git,          \* git[d]: what the three git queries answer for directory d
    now,          \* datetime.now() at construction of the scanner
    sinceArg,     \* the `since` argument of GitScanner.__init__ (None or an instant)
    recursive,    \* the `recursive` argument
    jobs,         \* the `jobs` argument (max_workers)
    mainpc,       \* position of the thread running scan_all
    futures,      \* the futures dict of scan_all: futures[path] is the submitted repository
    queue,        \* submitted work items no worker has taken yet (FIFO)
    scan,         \* scan[d]: the scan of repository d: its position and its ScanResult
    latest,       \* latest[o]: whose report latest.html of output subdirectory o links
                  \* to: {} no link, {<<>>} a report of an earlier run, {d} this run's of d
    outputDirMade,\* whether scan_all created output_dir
    results,      \* the shared result list of scan_all (references to ScanResults)
    summary,      \* repos_data as handed to the summary renderer (None before)
    styleScan,    \* styleScan[d]: the "style" check of the scan of repository d
    styleIssues,  \* styleIssues[c]: the list `issues` of StyleChecker instance c
    orgRun,       \* a run of the analyze_org command of repofacts/cli.py
    parseRun,     \* a git-log text and what the log parsers return for it
    healthRun     \* an input of calculate_health_score and the score

\* the state of a run of GitScanner.scan_all
scanAllVars == <<rootExists, gitDirs, git, now, sinceArg, recursive, jobs, mainpc, futures,
                 queue, scan, latest, outputDirMade, results, summary>>

\* the state of the other programs of the repository, which scan_all does not touch
styleVars == <<styleScan, styleIssues>>
otherVars == <<styleVars, orgRun, parseRun, healthRun>>

vars == <<scanAllVars, otherVars>>

StyleIdle ==
    /\ styleScan = <<>>
    /\ styleIssues = <<>>

OthersIdle ==
    /\ StyleIdle
    /\ orgRun = <<>>
    /\ parseRun = <<>>
    /\ healthRun = <<>>

envVars == <<rootExists, gitDirs, git, now, sinceArg, recursive, jobs>>

\* None, for a value that is otherwise a string
None == "None"
\* None, for a value that is otherwise an instant (instants are >= 0)
NoDate == 0 - 1

(***************************************************************************)
(* Bounds of the model.                                                    *)
(***************************************************************************)
MaxRepos == 3       \* at most this many directories hold a .git
MaxJobs == 2        \* jobs ranges over 1..MaxJobs
TicksPerDay == 2    \* instants per calendar day (time of day 0 .. TicksPerDay-1)
HistoryDays == 9    \* now is the last instant of day HistoryDays

(***************************************************************************)
(* str.lower() and the < of str and of tuples of str.                      *)
(***************************************************************************)
Lower(s) == [i \in DOMAIN s |-> IF s[i] \in 65..90 THEN s[i] + 32 ELSE s[i]]

RECURSIVE StrLess(_, _)
StrLess(s, t) ==
    IF t = <<>> THEN FALSE
    ELSE IF s = <<>> THEN TRUE
    ELSE IF Head(s) # Head(t) THEN Head(s) < Head(t)
    ELSE StrLess(Tail(s), Tail(t))

\* (a1, a2) < (b1, b2) for tuples of two strings
KeyLess(k1, k2) ==
    \/ StrLess(k1[1], k2[1])
    \/ k1[1] = k2[1] /\ StrLess(k1[2], k2[2])

(***************************************************************************)
(* Directory names and the directories that may hold a repository.         *)
(***************************************************************************)
nm_a == <<97>>
nm_A == <<65>>
nm_b == <<98>>
nm_r == <<114>>
nm_x == <<120>>
EmptyStr == <<>>

RepoDirs ==
    { <<nm_a, nm_r>>, <<nm_A, nm_r>>, <<nm_a, nm_x, nm_r>>, <<nm_b>>,
      <<nm_a, nm_r, nm_x>> }     \* the last one lies inside a/r
\* the ones the runs of scan_all are explored over
ScanDirs == { <<nm_a, nm_r>>, <<nm_A, nm_r>>, <<nm_a, nm_x, nm_r>> }

IsPrefix(p, d) == Len(p) <= Len(d) /\ SubSeq(d, 1, Len(p)) = p
IsProperPrefix(p, d) == IsPrefix(p, d) /\ p # d

(***************************************************************************)
(* GitRepo: __post_init__ / _extract_metadata / _run_git.                  *)
(* git[d] = [branch, date, remote]: "fail" is a non-zero exit or empty     *)
(* output; the date Garbage is output strptime cannot parse.               *)
(***************************************************************************)
\* answers of the date query that are no instant
Failed == 0 - 1
Garbage == 0 - 2

\* datetime.strptime(stdout.split()[0], "%Y-%m-%d"): the day, at midnight
ParseDate(t) == (t \div TicksPerDay) * TicksPerDay

\* (mutant) the first query that fails ends the extraction
ExtractMetadataStopsAtFailure(g) ==
    IF g.branch = "fail"
    THEN [branch |-> "main", last_commit_date |-> NoDate, remote_url |-> ""]
    ELSE IF g.date \in {Failed, Garbage}
    THEN [branch |-> g.branch, last_commit_date |-> NoDate, remote_url |-> ""]
    ELSE [branch |-> g.branch, last_commit_date |-> ParseDate(g.date),
          remote_url |-> IF g.remote = "fail" THEN "" ELSE g.remote]

ExtractMetadata(g) ==
    LET branch == IF g.branch = "fail" THEN "main" ELSE g.branch
    IN  IF g.date = Garbage
        THEN \* strptime raises; the except clause swallows it, the remote query is skipped
             [branch |-> branch, last_commit_date |-> NoDate, remote_url |-> ""]
        ELSE [branch |-> branch,
              last_commit_date |-> IF g.date = Failed THEN NoDate ELSE ParseDate(g.date),
              remote_url |-> IF g.remote = "fail" THEN "" ELSE g.remote]

GitRepo(path, name, org, g) ==
    LET m == ExtractMetadata(g)
    IN  [path |-> path, name |-> name, org |-> org, branch |-> m.branch,
         remote_url |-> m.remote_url, last_commit_date |-> m.last_commit_date]

\* (mutant) a repository without a last commit date counts as recent
has_recent_changes_unknown_is_recent(repo, since) ==
    IF repo.last_commit_date = NoDate THEN TRUE
    ELSE repo.last_commit_date >= since

has_recent_changes(repo, since) ==
    IF repo.last_commit_date = NoDate THEN FALSE
    ELSE repo.last_commit_date >= since

(***************************************************************************)
(* GitScanner.__init__                                                     *)
(***************************************************************************)
DefaultSinceDays == 7

Since(arg, nowT) == IF arg # NoDate THEN arg ELSE nowT - DefaultSinceDays * TicksPerDay

(***************************************************************************)
(* GitScanner.find_git_repos                                               *)
(***************************************************************************)
\* os.walk top-down: the visited directories that hold a .git; without
\* `recursive` the walk does not descend below a directory that holds one
\* (mutant) the walk descends below a repository also without `recursive`
WalkedGitDirsDescends(dirs, rec) == dirs

WalkedGitDirs(dirs, rec) ==
    {d \in dirs : rec \/ \A p \in dirs : ~IsProperPrefix(p, d)}

RECURSIVE CommonPrefix(_, _)
CommonPrefix(a, b) ==
    IF a = <<>> \/ b = <<>> \/ Head(a) # Head(b) THEN <<>>
    ELSE <<Head(a)>> \o CommonPrefix(Tail(a), Tail(b))

Perms(S) ==
    {s \in [1..Cardinality(S) -> S] : \A i, j \in DOMAIN s : i # j => s[i] # s[j]}

\* the orders os.walk can yield them in: a directory before what is below it, each
\* subtree in one piece, siblings in the (arbitrary) order of the directory listing
IsWalkOrder(s) ==
    /\ \A i, j \in DOMAIN s : i < j => ~IsProperPrefix(s[j], s[i])
    /\ \A i, j, k \in DOMAIN s :
          (i < j /\ j < k) => IsPrefix(CommonPrefix(s[i], s[k]), s[j])

WalkOrders(S) == {s \in Perms(S) : IsWalkOrder(s)}

\* (mutant) the organization is the directory the repository lies in
OrgOfParent(parts) == IF Len(parts) > 1 THEN parts[Len(parts) - 1] ELSE EmptyStr

\* parts[0] if len(parts) > 1 else ""
OrgOf(parts) == IF Len(parts) > 1 THEN parts[1] ELSE EmptyStr
\* parts[-1]
NameOf(parts) == parts[Len(parts)]

\* the loop over git_dirs (lines 157-174)
RECURSIVE CreateRepos(_, _, _)
CreateRepos(walk, g, since) ==
    IF walk = <<>> THEN <<>>
    ELSE LET d == Head(walk)
             rest == CreateRepos(Tail(walk), g, since)
         IN  IF d = <<>>
             THEN rest     \* parts[-1] raises IndexError: warned about and skipped
             ELSE LET repo == GitRepo(d, NameOf(d), OrgOf(d), g[d])
                  IN  IF since # NoDate /\ ~has_recent_changes(repo, since)
                      THEN rest
                      ELSE <<repo>> \o rest

find_git_repos(walk) ==
    IF ~rootExists THEN <<>>
    ELSE CreateRepos(walk, git, Since(sinceArg, now))

(***************************************************************************)
(* The checks of scan_repo.                                                *)
(***************************************************************************)
Checkers == <<"style", "code_quality", "dependencies", "documentation", "tests", "ci">>
CheckerNames == {Checkers[i] : i \in DOMAIN Checkers}
Outcomes == {"ok", "not_ok", "raise"}

AllOk == [c \in CheckerNames |-> "ok"]
\* what the six checks do for one repository: all pass, "tests" does not pass,
\* "style" raises, or all of them raise
OutcomeVectors ==
    { AllOk, [AllOk EXCEPT !["tests"] = "not_ok"], [AllOk EXCEPT !["style"] = "raise"],
      [c \in CheckerNames |-> "raise"] }

EmptyMap == [c \in {} |-> None]

\* (mutant) the loop gives up at the first check that raises
RECURSIVE RunCheckersStopAtRaise(_, _, _)
RunCheckersStopAtRaise(i, outcome, res) ==
    IF i > Len(Checkers) THEN res
    ELSE LET c == Checkers[i]
         IN  IF outcome[c] = "raise"
             THEN res
             ELSE RunCheckersStopAtRaise(i + 1, outcome,
                              (c :> [name |-> c, is_ok |-> (outcome[c] = "ok")]) @@ res)

\* for checker in checkers: try: results[name] = checker.check(path) except: warn
RECURSIVE RunCheckers(_, _, _)
RunCheckers(i, outcome, res) ==
    IF i > Len(Checkers) THEN res
    ELSE LET c == Checkers[i]
         IN  IF outcome[c] = "raise"
             THEN RunCheckers(i + 1, outcome, res)
             ELSE RunCheckers(i + 1, outcome,
                              (c :> [name |-> c, is_ok |-> (outcome[c] = "ok")]) @@ res)

\* (mutant) a check that raised is called a second time
RECURSIVE CheckCallsRetry(_, _)
CheckCallsRetry(i, outcome) ==
    IF i > Len(Checkers) THEN <<>>
    ELSE LET c == Checkers[i]
         IN  IF outcome[c] = "raise"
             THEN <<c, c>> \o CheckCallsRetry(i + 1, outcome)
             ELSE <<c>> \o CheckCallsRetry(i + 1, outcome)

\* the calls checker.check(repo.path) the same loop makes, in order
RECURSIVE CheckCalls(_, _)
CheckCalls(i, outcome) ==
    IF i > Len(Checkers) THEN <<>>
    ELSE LET c == Checkers[i]
         IN  IF outcome[c] = "raise"
             THEN <<c>> \o CheckCalls(i + 1, outcome)    \* warned about; next checker
             ELSE <<c>> \o CheckCalls(i + 1, outcome)

\* dict.values(): in insertion order, which is the order of the checkers
Values(res) ==
    LET names == SelectSeq(Checkers, LAMBDA c : c \in DOMAIN res)
    IN  [i \in DOMAIN names |-> res[names[i]]]

\* any(not r.is_ok for r in values)
RECURSIVE AnyNotOk(_)
AnyNotOk(vals) ==
    IF vals = <<>> THEN FALSE
    ELSE IF ~Head(vals).is_ok THEN TRUE
    ELSE AnyNotOk(Tail(vals))

\* _generate_repo_report, line 288
RepoReportHasErrors(result) ==
    result.error # None \/ AnyNotOk(Values(result.results))

\* (mutant) the summary looks at the checks only
SummaryHasErrorsChecksOnly(result) ==
    AnyNotOk(Values(result.results))

\* _generate_summary_report, line 341
SummaryHasErrors(result) ==
    result.error # None \/ AnyNotOk(Values(result.results))

\* self.output_dir / repo.org / repo.name
OutDir(repo) == <<repo.org, repo.name>>
OutDirs == {<<OrgOf(d), NameOf(d)>> : d \in RepoDirs \ {<<>>}}

(***************************************************************************)
(* The summary: repos_data and its sort.                                   *)
(***************************************************************************)
SummaryEntry(result) ==
    [name |-> result.repo.name, org |-> result.repo.org, path |-> result.repo.path,
     branch |-> result.repo.branch, has_errors |-> SummaryHasErrors(result),
     last_commit |-> result.repo.last_commit_date,
     report_path |-> <<result.repo.org, result.repo.name, "latest.html">>,
     remote_url |-> result.repo.remote_url]

\* key=lambda x: (x["org"].lower(), x["name"].lower())
SortKey(e) == <<Lower(e.org), Lower(e.name)>>

RECURSIVE InsertSorted(_, _)
InsertSorted(sorted, e) ==
    IF sorted = <<>> THEN <<e>>
    ELSE IF KeyLess(SortKey(e), SortKey(Head(sorted))) THEN <<e>> \o sorted
    ELSE <<Head(sorted)>> \o InsertSorted(Tail(sorted), e)

\* list.sort(key=...): stable, entries with equal keys keep their order
\* (the last entry is inserted into the sorted list of the entries before it)
RECURSIVE SortByOrgName(_)
SortByOrgName(data) ==
    IF data = <<>> THEN <<>>
    ELSE CHOOSE r \in {InsertSorted(before, data[Len(data)]) :
                           before \in {SortByOrgName(SubSeq(data, 1, Len(data) - 1))}} : TRUE

(***************************************************************************)
(* The initial states: a directory tree, the answers of git, the           *)
(* arguments of the scanner.                                               *)
(***************************************************************************)
Now == HistoryDays * TicksPerDay + (TicksPerDay - 1)
RecentCommit == Now - 1
\* midnight of day 0
OldCommit == 0 * TicksPerDay
\* a cutoff a caller may pass: midnight of day 1
CallerCutoff == TicksPerDay

GitRecent == [branch |-> "dev", date |-> RecentCommit, remote |-> "url"]
GitOld == [branch |-> "dev", date |-> OldCommit, remote |-> "url"]
GitGarbage == [branch |-> "dev", date |-> Garbage, remote |-> "url"]
GitAllFail == [branch |-> "fail", date |-> Failed, remote |-> "fail"]
\* one query exits non-zero (or prints nothing), the other two answer
GitBranchFail == [branch |-> "fail", date |-> RecentCommit, remote |-> "url"]
GitDateFail == [branch |-> "dev", date |-> Failed, remote |-> "url"]
GitRemoteFail == [branch |-> "dev", date |-> RecentCommit, remote |-> "fail"]
GitAnswers ==
    {GitRecent, GitOld, GitGarbage, GitAllFail, GitBranchFail, GitDateFail, GitRemoteFail}

Init ==
    /\ rootExists \in BOOLEAN
    /\ gitDirs \in SUBSET ScanDirs
    /\ (rootExists \/ gitDirs = {})     \* nothing lies below a root that is not there
    /\ git \in [gitDirs -> {GitRecent, GitGarbage}]
    /\ now = Now
    /\ sinceArg = NoDate
    /\ recursive = TRUE
    /\ jobs \in 1..MaxJobs
    /\ mainpc = "start"
    /\ futures = <<>>
    /\ queue = <<>>
    /\ scan = <<>>
    /\ latest \in {[o \in OutDirs |-> {}], [o \in OutDirs |-> {<<>>}]}
    /\ outputDirMade = FALSE
    /\ results = <<>>
    /\ summary = <<>>
    /\ OthersIdle

\* a future is running until scan_repo returned (or raised)
Running == {d \in DOMAIN scan : scan[d].pc \in {"report", "unlink", "symlink"}}
\* (mutant) the scan leaves the repository with the default branch
ScanResultOfBranchReset(d) ==
    [repo |-> [futures[d] EXCEPT !.branch = "main"],
     results |-> scan[d].results, error |-> scan[d].error]

ScanResultOf(d) == [repo |-> futures[d], results |-> scan[d].results, error |-> scan[d].error]

(***************************************************************************)
(* scan_all, lines 221-236: discovery, output_dir, submission of one scan  *)
(* per repository.                                                         *)
(***************************************************************************)
\* (mutant) scan_all goes on with an empty list
NoReposNever(repos) == FALSE

\* if not repos: return []   (line 223)
NoRepos(repos) == repos = <<>>

Discover ==
    /\ mainpc = "start"
    /\ \E walk \in WalkOrders(WalkedGitDirs(gitDirs, recursive)) :
          \E repos \in {find_git_repos(walk)} :      \* repos = self.find_git_repos()
              IF NoRepos(repos)
              THEN /\ mainpc' = "returned"
                   /\ UNCHANGED <<queue, futures, outputDirMade>>
              ELSE /\ mainpc' = "scanning"
                   /\ outputDirMade' = TRUE
                   /\ futures' = [d \in {repos[i].path : i \in DOMAIN repos} |->
                                    (CHOOSE r \in {repos[i] : i \in DOMAIN repos} : r.path = d)]
                   /\ queue' = [i \in DOMAIN repos |-> repos[i].path]
    /\ UNCHANGED <<envVars, otherVars, scan, latest, results, summary>>

(***************************************************************************)
(* scan_repo, lines 180-208, run by a free worker on the oldest submitted  *)
(* item: the import of the checkers and the loop over them.                *)
(***************************************************************************)
NewScan ==
    [pc |-> "report", results |-> EmptyMap, error |-> None,
     ranChecks |-> FALSE, outcome |-> AllOk, calls |-> <<>>, report |-> <<>>]

\* (mutant) the except clause also empties the result map
ScanRepoExceptDropsResults(s, e) ==
    [s EXCEPT !.pc = "returned", !.error = e, !.results = EmptyMap]

\* (mutant) scan_repo lets the exception out: the future ends with it
ScanRepoExceptPropagates(s, e) == [s EXCEPT !.pc = "raised"]

\* scan_repo, lines 213-217: except Exception: result.error = str(e); return result
ScanRepoExcept(s, e) == [s EXCEPT !.pc = "returned", !.error = e]

ScanImportFails == ScanRepoExcept(NewScan, "ImportError")

ScanChecks(outcome) ==
    [NewScan EXCEPT !.results = RunCheckers(1, outcome, EmptyMap),
                    !.calls = CheckCalls(1, outcome),
                    !.ranChecks = TRUE, !.outcome = outcome]

\* (mutant) the pool keeps one of its workers in reserve
WorkerFreeButOne == Cardinality(Running) + 1 < jobs

\* (mutant) the pool starts a work item whenever one is queued
WorkerAlwaysFree == TRUE

\* ThreadPoolExecutor(max_workers=self.jobs): a worker is idle
WorkerFree == Cardinality(Running) < jobs

ScanRepoStart ==
    /\ mainpc = "scanning"
    /\ queue # <<>>
    /\ WorkerFree
    /\ \/ scan' = (Head(queue) :> ScanImportFails) @@ scan
       \/ \E outcome \in OutcomeVectors :
             scan' = (Head(queue) :> ScanChecks(outcome)) @@ scan
    /\ queue' = Tail(queue)
    /\ UNCHANGED <<envVars, otherVars, mainpc, futures, latest, outputDirMade, results, summary>>

(***************************************************************************)
(* _generate_repo_report, lines 272-314: the output subdirectory, the      *)
(* report with its has_errors, then latest_link.exists().                  *)
(***************************************************************************)
GenerateRepoReport(d) ==
    /\ d \in DOMAIN scan
    /\ scan[d].pc = "report"
    /\ \/ scan' = [scan EXCEPT ![d] = ScanRepoExcept(scan[d], "ReportError")]
       \/ scan' = [scan EXCEPT
                     ![d].report = <<RepoReportHasErrors(ScanResultOf(d))>>,
                     ![d].pc = IF latest[OutDir(futures[d])] # {}
                               THEN "unlink" ELSE "symlink"]
    /\ UNCHANGED <<envVars, otherVars, mainpc, futures, queue, latest, outputDirMade, results, summary>>

\* latest_link.unlink(), line 315: FileNotFoundError when the link is gone by now
Unlink(d) ==
    /\ d \in DOMAIN scan
    /\ scan[d].pc = "unlink"
    /\ LET o == OutDir(futures[d])
       IN  IF latest[o] = {}
           THEN /\ scan' = [scan EXCEPT ![d] = ScanRepoExcept(scan[d], "FileNotFoundError")]
                /\ UNCHANGED latest
           ELSE /\ latest' = [latest EXCEPT ![o] = {}]
                /\ scan' = [scan EXCEPT ![d].pc = "symlink"]
    /\ UNCHANGED <<envVars, otherVars, mainpc, futures, queue, outputDirMade, results, summary>>

\* latest_link.symlink_to(report_path.name), lines 316-320: FileExistsError is passed over
Symlink(d) ==
    /\ d \in DOMAIN scan
    /\ scan[d].pc = "symlink"
    /\ LET o == OutDir(futures[d])
       IN  latest' = IF latest[o] = {} THEN [latest EXCEPT ![o] = {d}] ELSE latest
    /\ scan' = [scan EXCEPT ![d].pc = "returned"]
    /\ UNCHANGED <<envVars, otherVars, mainpc, futures, queue, outputDirMade, results, summary>>

(***************************************************************************)
(* scan_all, lines 247-255: as_completed hands over a finished future;     *)
(* its result is appended to the shared list, unless future.result()       *)
(* raises what scan_repo raised.                                           *)
(***************************************************************************)
\* (mutant) the result is put in front of the list
InsertResultFirst(rs, d) == <<d>> \o rs

\* results.append(result), line 251
AppendResult(rs, d) == Append(rs, d)

Collect(d) ==
    /\ mainpc = "scanning"
    /\ d \in DOMAIN scan
    /\ scan[d].pc \in {"returned", "raised"}
    /\ results' = IF scan[d].pc = "returned" THEN AppendResult(results, d) ELSE results
    /\ scan' = [scan EXCEPT ![d].pc = "collected"]
    /\ UNCHANGED <<envVars, otherVars, mainpc, futures, queue, latest, outputDirMade, summary>>

(***************************************************************************)
(* scan_all, lines 257-260 and _generate_summary_report: repos_data,       *)
(* sorted, handed to the renderer, which writes summary.html or raises.    *)
(***************************************************************************)
\* (mutant) the results that carry an error get no entry
ReposDataSkipsErrors(rs) ==
    LET ok == SelectSeq(rs, LAMBDA d : scan[d].error = None)
    IN  [i \in DOMAIN ok |-> SummaryEntry(ScanResultOf(ok[i]))]

\* lines 339-355: one entry per result, in the order of the list
ReposData(rs) == [i \in DOMAIN rs |-> SummaryEntry(ScanResultOf(rs[i]))]

GenerateSummary ==
    /\ mainpc = "scanning"
    /\ \A d \in DOMAIN futures : d \in DOMAIN scan /\ scan[d].pc = "collected"
    /\ IF results = <<>>
       THEN \* _generate_summary_report returns None at once
            /\ mainpc' = "returned"
            /\ UNCHANGED summary
       ELSE /\ \E repos_data \in {ReposData(results)} :
                  summary' = SortByOrgName(repos_data)
            /\ mainpc' \in {"returned", "raised"}
    /\ UNCHANGED <<envVars, otherVars, futures, queue, scan, latest, outputDirMade, results>>

Next ==
    \/ Discover
    \/ ScanRepoStart
    \/ \E d \in RepoDirs : GenerateRepoReport(d)
    \/ \E d \in RepoDirs : Unlink(d)
    \/ \E d \in RepoDirs : Symlink(d)
    \/ \E d \in RepoDirs : Collect(d)
    \/ GenerateSummary

Spec == Init /\ [][Next]_vars

(***************************************************************************)
(* Scheduling: the thread running scan_all and the workers of the pool     *)
(* keep running: while some step of scan_all or of a scan can be taken,    *)
(* one is eventually taken.                                                *)
(***************************************************************************)
Fairness == WF_vars(Next)

\* the runs explored for termination: every repository answers git and a latest.html
\* of an earlier run is in place (so that the scans also go through unlink)
InitLive ==
    /\ Init
    /\ \A d \in gitDirs : git[d] = GitRecent
    /\ \A o \in OutDirs : latest[o] = {<<>>}

LiveSpec == InitLive /\ [][Next]_vars /\ Fairness

(***************************************************************************)
(* scan_all of a scanner that was given a cutoff, over repositories with   *)
(* and without a last commit date.                                         *)
(***************************************************************************)
InitCutoff ==
    /\ rootExists = TRUE
    /\ gitDirs \in SUBSET ScanDirs
    /\ git \in [gitDirs -> {GitRecent, GitOld, GitDateFail, GitGarbage}]
    /\ now = Now
    /\ sinceArg = CallerCutoff
    /\ recursive = TRUE
    /\ jobs = 1
    /\ mainpc = "start"
    /\ futures = <<>>
    /\ queue = <<>>
    /\ scan = <<>>
    /\ latest = [o \in OutDirs |-> {<<>>}]
    /\ outputDirMade = FALSE
    /\ results = <<>>
    /\ summary = <<>>
    /\ OthersIdle

SpecCutoff == InitCutoff /\ [][Next]_vars

(***************************************************************************)
(* Discovery alone, over more trees, answers of git and arguments.         *)
(***************************************************************************)
InitDiscover ==
    /\ rootExists \in BOOLEAN
    /\ gitDirs \in {S \in SUBSET RepoDirs : Cardinality(S) <= MaxRepos}
    /\ (rootExists \/ gitDirs = {})
    /\ git \in [gitDirs -> GitAnswers]
    /\ now = Now
    /\ sinceArg \in {NoDate, CallerCutoff}
    /\ recursive \in BOOLEAN
    /\ jobs = 1
    /\ mainpc = "start"
    /\ futures = <<>>
    /\ queue = <<>>
    /\ scan = <<>>
    /\ latest = [o \in OutDirs |-> {}]
    /\ outputDirMade = FALSE
    /\ results = <<>>
    /\ summary = <<>>
    /\ OthersIdle

SpecDiscover == InitDiscover /\ [][Discover]_vars

\* discovery in recursive mode over trees in which the root directory itself may hold
\* a .git (relative_to(root_dir) of the root is ".", whose parts are empty)
RootDir == <<>>

InitDiscoverRoot ==
    /\ rootExists = TRUE
    /\ gitDirs \in {S \in SUBSET (RepoDirs \cup {RootDir}) : Cardinality(S) <= MaxRepos}
    /\ git \in [gitDirs -> {GitRecent, GitOld}]
    /\ now = Now
    /\ sinceArg \in {NoDate, CallerCutoff}
    /\ recursive = TRUE
    /\ jobs = 1
    /\ mainpc = "start"
    /\ futures = <<>>
    /\ queue = <<>>
    /\ scan = <<>>
    /\ latest = [o \in OutDirs |-> {}]
    /\ outputDirMade = FALSE
    /\ results = <<>>
    /\ summary = <<>>
    /\ OthersIdle

SpecDiscoverRoot == InitDiscoverRoot /\ [][Discover]_vars

\* discovery under a caller's cutoff that is midnight of day 1 or the last instant of
\* that day, over commits made at any instant of days 0 to 2
LateCutoff == CallerCutoff + (TicksPerDay - 1)
CommitsNearCutoff ==
    {[branch |-> "dev", date |-> t, remote |-> "url"] : t \in 0 .. (3 * TicksPerDay - 1)}

InitCutoffTime ==
    /\ rootExists = TRUE
    /\ gitDirs \in SUBSET ScanDirs
    /\ git \in [gitDirs -> CommitsNearCutoff]
    /\ now = Now
    /\ sinceArg \in {CallerCutoff, LateCutoff}
    /\ recursive = TRUE
    /\ jobs = 1
    /\ mainpc = "start"
    /\ futures = <<>>
    /\ queue = <<>>
    /\ scan = <<>>
    /\ latest = [o \in OutDirs |-> {}]
    /\ outputDirMade = FALSE
    /\ results = <<>>
    /\ summary = <<>>
    /\ OthersIdle

SpecCutoffTime == InitCutoffTime /\ [][Discover]_vars

(***************************************************************************)
(* checkers/style.py: the "style" check as scan_repo runs it. Every scan   *)
(* creates its StyleChecker (git_scanner.py line 194) and calls check():   *)
(* the list `issues` of the instance is reset, each of the four tools      *)
(* appends what it finds under the repository's path, and the report is    *)
(* built from the list. The scans of different repositories interleave.    *)
(***************************************************************************)
StyleTools == <<"black", "isort", "flake8", "mypy">>

\* a scanner that has discovered the repositories of ScanDirs; nothing of scan_all
\* itself moves in the runs below
ScanAllIdle ==
    /\ rootExists = TRUE
    /\ gitDirs = ScanDirs
    /\ git = [d \in ScanDirs |-> GitRecent]
    /\ now = Now
    /\ sinceArg = NoDate
    /\ recursive = TRUE
    /\ jobs = MaxJobs
    /\ mainpc = "scanning"
    /\ futures = [d \in ScanDirs |-> GitRepo(d, NameOf(d), OrgOf(d), GitRecent)]
    /\ queue = <<>>
    /\ scan = <<>>
    /\ latest = [o \in OutDirs |-> {}]
    /\ outputDirMade = TRUE
    /\ results = <<>>
    /\ summary = <<>>

\* (mutant) one StyleChecker instance serves every scan
StyleCheckerShared(d) == <<>>

\* StyleChecker(): a new object for every call of scan_repo, named here by its scan
StyleCheckerOf(d) == d

\* scan_repo line 194 and StyleChecker.__init__: self.issues = []
StyleCheckerNew(d) ==
    /\ d \notin DOMAIN styleScan
    /\ styleScan' = (d :> [pc |-> "reset", checker |-> StyleCheckerOf(d), tool |-> 1,
                           found |-> <<>>, result |-> <<>>]) @@ styleScan
    /\ styleIssues' = [c \in DOMAIN styleIssues \cup {StyleCheckerOf(d)} |->
                         IF c = StyleCheckerOf(d) THEN <<>> ELSE styleIssues[c]]
    /\ UNCHANGED <<scanAllVars, orgRun, parseRun, healthRun>>

\* check(), line 69: self.issues = []
StyleReset(d) ==
    /\ d \in DOMAIN styleScan
    /\ styleScan[d].pc = "reset"
    /\ styleIssues' = [styleIssues EXCEPT ![styleScan[d].checker] = <<>>]
    /\ styleScan' = [styleScan EXCEPT ![d].pc = "tool"]
    /\ UNCHANGED <<scanAllVars, orgRun, parseRun, healthRun>>

\* check(), lines 72-75: one of _run_black_check .. _run_mypy_check on the path of d:
\* the tool finds nothing, or an issue in a file of d is appended to self.issues, or
\* the call raises (an output line the parser cannot read) and check() ends with it
StyleRunTool(d) ==
    /\ d \in DOMAIN styleScan
    /\ styleScan[d].pc = "tool"
    /\ LET k == styleScan[d].tool
           issue == [file |-> d, tool |-> StyleTools[k]]
           next == IF k = Len(StyleTools) THEN "report" ELSE "tool"
       IN  \/ /\ styleScan' = [styleScan EXCEPT ![d].tool = k + 1, ![d].pc = next]
              /\ UNCHANGED styleIssues
           \/ /\ styleIssues' = [styleIssues EXCEPT
                                   ![styleScan[d].checker] = Append(@, issue)]
              /\ styleScan' = [styleScan EXCEPT ![d].tool = k + 1, ![d].pc = next,
                                                ![d].found = Append(@, issue)]
           \/ /\ styleScan' = [styleScan EXCEPT ![d].pc = "raised"]
              /\ UNCHANGED styleIssues
    /\ UNCHANGED <<scanAllVars, orgRun, parseRun, healthRun>>

\* check() line 78 with _generate_report, then scan_repo line 206:
\* result.results["style"] = check_result
StyleReport(d) ==
    /\ d \in DOMAIN styleScan
    /\ styleScan[d].pc = "report"
    /\ \E issues \in {styleIssues[styleScan[d].checker]} :
          styleScan' = [styleScan EXCEPT
                          ![d].pc = "returned",
                          ![d].result = <<[name |-> "style", is_ok |-> (issues = <<>>),
                                           issues |-> issues]>>]
    /\ UNCHANGED <<scanAllVars, orgRun, parseRun, healthRun, styleIssues>>

InitStyle ==
    /\ ScanAllIdle
    /\ OthersIdle

NextStyle ==
    \/ \E d \in ScanDirs : StyleCheckerNew(d)
    \/ \E d \in ScanDirs : StyleReset(d)
    \/ \E d \in ScanDirs : StyleRunTool(d)
    \/ \E d \in ScanDirs : StyleReport(d)

SpecStyle == InitStyle /\ [][NextStyle]_vars

(***************************************************************************)
(* repofacts/cli.py: the analyze_org command. The organization directory   *)
(* holds entries; the repositories are its sub-directories with a .git,    *)
(* other than `venv`, in the order iterdir yields them. GitAnalyzer.analyze *)
(* returns a RepoStatus or None.                                           *)
(***************************************************************************)
OrgEntryNames == {"r1", "r2", "venv", "docs"}
\* "repo": a directory that holds a .git; "plain": any other entry
OrgEntryKinds == {"repo", "plain"}
NoExit == 0 - 1

\* line 43-44: the entries that pass the filter of the list comprehension
OrgRepoNames(entries) ==
    {n \in DOMAIN entries : entries[n] = "repo" /\ n # "venv"}

\* the orders in which iterdir may yield them
OrgRepoLists(entries) == Perms(OrgRepoNames(entries))

\* (mutant) the emptiness test never fires
NoOrgReposNever(repos) == FALSE

\* line 46: if not repos
NoOrgRepos(repos) == repos = <<>>

\* the attributes of the class object RepoStatus (analyzer.py lines 29-42): a dataclass
\* keeps a class attribute only for a field with a plain default; generated_at has
\* a default_factory, the other fields no default
RepoStatusClassAttrs == {}

\* lines 43-48
OrgList ==
    /\ orgRun.pc = "start"
    /\ \E repos \in OrgRepoLists(orgRun.entries) :
          IF NoOrgRepos(repos)
          THEN orgRun' = [orgRun EXCEPT !.pc = "exit", !.exit = 1,
                                        !.message = "No Git repositories found"]
          ELSE orgRun' = [orgRun EXCEPT !.pc = "loop", !.repos = repos]
    /\ UNCHANGED <<scanAllVars, styleVars, parseRun, healthRun>>

\* lines 52-67: one turn of the loop; save_reports writes the directory output/<name>
OrgAnalyze ==
    /\ orgRun.pc = "loop"
    /\ orgRun.i <= Len(orgRun.repos)
    /\ LET name == orgRun.repos[orgRun.i]
       IN  \/ orgRun' = [orgRun EXCEPT !.i = @ + 1,
                                       !.analysed = Append(@, name),
                                       !.reports = @ \cup {name},
                                       !.all_repos_status = Append(@, [name |-> name])]
           \/ orgRun' = [orgRun EXCEPT !.i = @ + 1,
                                       !.analysed = Append(@, name)]
    /\ UNCHANGED <<scanAllVars, styleVars, parseRun, healthRun>>

\* lines 69-82: the summary; line 72 reads the class attribute RepoStatus.generated_at
OrgSummary ==
    /\ orgRun.pc = "loop"
    /\ orgRun.i > Len(orgRun.repos)
    /\ IF orgRun.all_repos_status = <<>>
       THEN orgRun' = [orgRun EXCEPT !.pc = "exit", !.exit = 0]
       ELSE IF "generated_at" \in RepoStatusClassAttrs
       THEN orgRun' = [orgRun EXCEPT
                         !.pc = "exit", !.exit = 0,
                         !.summary = <<[total_repositories |-> Len(orgRun.all_repos_status),
                                        repositories |-> orgRun.all_repos_status]>>]
       ELSE orgRun' = [orgRun EXCEPT !.pc = "exit", !.exit = 1,
                                     !.message = "AttributeError"]
    /\ UNCHANGED <<scanAllVars, styleVars, parseRun, healthRun>>

InitOrg ==
    /\ ScanAllIdle
    /\ StyleIdle
    /\ parseRun = <<>>
    /\ healthRun = <<>>
    /\ \E names \in SUBSET OrgEntryNames :
       \E entries \in [names -> OrgEntryKinds] :
          orgRun = [pc |-> "start", entries |-> entries, repos |-> <<>>, i |-> 1,
                    analysed |-> <<>>, reports |-> {}, all_repos_status |-> <<>>,
                    summary |-> <<>>, exit |-> NoExit, message |-> ""]

NextOrg ==
    \/ OrgList
    \/ OrgAnalyze
    \/ OrgSummary

SpecOrg == InitOrg /\ [][NextOrg]_vars

(***************************************************************************)
(* The git-log parsers: GitAnalyzer._parse_git_log of repofacts/analyzer.py *)
(* (structured_reporter.py has the same text), RepoAnalyzer._parse_git_log *)
(* of simple_reporter.py and the loop of GitAnalyzer.get_git_log of        *)
(* ai_ecosystem_analyzer.py. A log is a sequence of stripped lines; a line *)
(* is given by whether it starts with "{", by what json.loads makes of it, *)
(* and by its tab-separated fields (line.split("\t")). A file path is the  *)
(* sequence of its tab-free pieces.                                        *)
(***************************************************************************)
MaxLines == 4     \* a log has at most this many lines

HeaderLine(h) == [brace |-> TRUE, json |-> "ok", hash |-> h, fields |-> <<"{..}">>]
\* a header whose message holds a double quote: json.loads raises JSONDecodeError
MalformedHeader == [brace |-> TRUE, json |-> "bad", hash |-> "", fields |-> <<"{..">>]
NumstatLine == [brace |-> FALSE, json |-> "", hash |-> "", fields |-> <<"1", "0", "f">>]
\* a numstat line whose file name holds a tab
NumstatTabLine == [brace |-> FALSE, json |-> "", hash |-> "", fields |-> <<"2", "1", "g", "h">>]
\* a line with one tab only
TwoFieldLine == [brace |-> FALSE, json |-> "", hash |-> "", fields |-> <<"x", "y">>]
BlankLine == [brace |-> FALSE, json |-> "", hash |-> "", fields |-> <<"">>]

LogLines ==
    {HeaderLine("h1"), HeaderLine("h2"), MalformedHeader, NumstatLine, NumstatTabLine,
     TwoFieldLine, BlankLine}

\* commits = [], current_commit = None
ParserStart == [commits |-> <<>>, current |-> <<>>, status |-> "running"]

\* if current_commit: commits.append(current_commit)
AppendCurrent(st) ==
    IF st.current # <<>> THEN [st EXCEPT !.commits = Append(@, st.current[1])] ELSE st

\* (mutant) a header that fails to parse leaves current_commit as it is
OnDecodeErrorKeepsCurrent(st) == st

\* except json.JSONDecodeError: current_commit = None
OnDecodeError(st) == [st EXCEPT !.current = <<>>]

\* the header branch of repofacts/analyzer.py (lines 80-92) and simple_reporter.py
HeaderStep(st, line) ==
    IF line.json = "ok"
    THEN [AppendCurrent(st) EXCEPT !.current = <<[hash |-> line.hash, files |-> <<>>]>>]
    ELSE OnDecodeError(AppendCurrent(st))

\* the header branch of ai_ecosystem_analyzer.py (lines 70-86): json.loads is not
\* guarded in the loop, the JSONDecodeError ends the loop
AiHeaderStep(st, line) ==
    IF line.json = "ok"
    THEN [AppendCurrent(st) EXCEPT !.current = <<[hash |-> line.hash, files |-> <<>>]>>]
    ELSE [AppendCurrent(st) EXCEPT !.status = "JSONDecodeError"]

\* elif line and current_commit and "\t" in line, with len(parts) >= 3
TakesNumstat(st, line) ==
    /\ line.fields # <<"">>
    /\ st.current # <<>>
    /\ Len(line.fields) > 1
    /\ Len(line.fields) >= 3

\* 'file': parts[2]
NumstatStep(st, line) ==
    IF TakesNumstat(st, line)
    THEN [st EXCEPT !.current[1].files = Append(@, <<line.fields[3]>>)]
    ELSE st

\* file_path = "\t".join(parts[2:])
AiNumstatStep(st, line) ==
    IF TakesNumstat(st, line)
    THEN [st EXCEPT !.current[1].files = Append(@, SubSeq(line.fields, 3, Len(line.fields)))]
    ELSE st

\* one turn of the loop of repofacts/analyzer.py and of simple_reporter.py
ParserStep(st, line) ==
    IF line.brace THEN HeaderStep(st, line) ELSE NumstatStep(st, line)

\* one turn of the loop of ai_ecosystem_analyzer.py
AiParserStep(st, line) ==
    IF st.status # "running" THEN st
    ELSE IF line.brace THEN AiHeaderStep(st, line) ELSE AiNumstatStep(st, line)

\* after the loop: if current_commit: commits.append(current_commit); return commits
ParserReturn(st) == AppendCurrent(st).commits

\* ai_ecosystem_analyzer.py lines 104-110: the except clause returns []
AiParserReturn(st) == IF st.status = "running" THEN AppendCurrent(st).commits ELSE <<>>

Logs == UNION {[1..n -> LogLines] : n \in 0..MaxLines}

\* the next line of the log goes through the three parsers
ParseLine ==
    /\ parseRun.pc = "loop"
    /\ parseRun.i <= Len(parseRun.log)
    /\ \E line \in {parseRun.log[parseRun.i]} :
          parseRun' = [parseRun EXCEPT
                         !.i = @ + 1,
                         !.repofacts = ParserStep(@, line),
                         !.simple = ParserStep(@, line),
                         !.ai = AiParserStep(@, line)]
    /\ UNCHANGED <<scanAllVars, styleVars, orgRun, healthRun>>

\* the end of the log: the three parsers return
ParseEnd ==
    /\ parseRun.pc = "loop"
    /\ parseRun.i > Len(parseRun.log)
    /\ parseRun' = [parseRun EXCEPT
                      !.pc = "done",
                      !.out = [repofacts |-> ParserReturn(parseRun.repofacts),
                               simple |-> ParserReturn(parseRun.simple),
                               ai |-> AiParserReturn(parseRun.ai)]]
    /\ UNCHANGED <<scanAllVars, styleVars, orgRun, healthRun>>

InitParse ==
    /\ ScanAllIdle
    /\ StyleIdle
    /\ orgRun = <<>>
    /\ healthRun = <<>>
    /\ \E log \in Logs :
          parseRun = [pc |-> "loop", log |-> log, i |-> 1,
                      repofacts |-> ParserStart, simple |-> ParserStart, ai |-> ParserStart,
                      out |-> [repofacts |-> <<>>, simple |-> <<>>, ai |-> <<>>]]

NextParse ==
    \/ ParseLine
    \/ ParseEnd

SpecParse == InitParse /\ [][NextParse]_vars

(***************************************************************************)
(* ecosystem_reporter.py: calculate_health_score. The score is a float     *)
(* with steps of 0.2 (test_coverage * 0.2 for a whole-percent coverage);   *)
(* it is kept here in fifths of a point.                                   *)
(***************************************************************************)
MaxCommits == 11       \* a commit list has at most this many commits
Fifths == 5
BaseScore == 70
MaxActivityBonus == 20
MaxCoverageBonus == 20
MaxContributorBonus == 10
MaxFixDeduction == 20
RecentWindow == 10     \* commits[:10]
PointsPerUnit == 2     \* days_active * 2, num_contributors * 2, recent_fixes * 2

Min(a, b) == IF a <= b THEN a ELSE b
Max(a, b) == IF a >= b THEN a ELSE b

\* (mutant) the score is returned as computed
NoClamp(score) == score

\* return max(0, min(100, score))
Clamp(score) == Max(0, Min(100 * Fifths, score))

\* days_active = len(set(c.date for c in commits)); min(20, days_active * 2)
ActivityBonus(commits) ==
    Min(MaxActivityBonus * Fifths,
        Cardinality({commits[k].date : k \in DOMAIN commits}) * PointsPerUnit * Fifths)

\* min(20, metrics.test_coverage * 0.2)
CoverageBonus(coverage) == Min(MaxCoverageBonus * Fifths, coverage)

\* min(10, num_contributors * 2)
ContributorBonus(n) == Min(MaxContributorBonus * Fifths, n * PointsPerUnit * Fifths)

\* recent_fixes = sum(1 for c in commits[:10] if c.is_fix); min(20, recent_fixes * 2)
FixDeduction(commits) ==
    Min(MaxFixDeduction * Fifths,
        Cardinality({k \in DOMAIN commits : k <= RecentWindow /\ commits[k].is_fix})
            * PointsPerUnit * Fifths)

calculate_health_score(commits, coverage, num_contributors) ==
    Clamp(BaseScore * Fifths + ActivityBonus(commits) + CoverageBonus(coverage)
          + ContributorBonus(num_contributors) - FixDeduction(commits))

\* whole-percent coverage values as read from the coverage file: below 0, 0, inside
\* and above 0..100
CoverageValues == {0 - 400, 0, 60, 200}
ContributorCounts == {0, 3, 9}
\* the commits all carry one date, or each its own
DatePatterns == {"same", "distinct"}

HealthScore ==
    /\ healthRun.pc = "call"
    /\ \E score \in {calculate_health_score(healthRun.commits, healthRun.coverage,
                                             healthRun.num_contributors)} :
          healthRun' = [healthRun EXCEPT !.pc = "returned", !.score = score]
    /\ UNCHANGED <<scanAllVars, styleVars, orgRun, parseRun>>

InitHealth ==
    /\ ScanAllIdle
    /\ StyleIdle
    /\ orgRun = <<>>
    /\ parseRun = <<>>
    /\ \E n \in 0..MaxCommits :
       \E fixes \in [1..n -> BOOLEAN] :
       \E dates \in DatePatterns :
       \E coverage \in CoverageValues :
       \E contributors \in ContributorCounts :
          healthRun = [pc |-> "call",
                       commits |-> [k \in 1..n |->
                                      [date |-> IF dates = "same" THEN 1 ELSE k,
                                       is_fix |-> fixes[k]]],
                       coverage |-> coverage,
                       num_contributors |-> contributors,
                       score |-> 0]

SpecHealth == InitHealth /\ [][HealthScore]_vars

(***************************************************************************)
(* Properties.                                                             *)
(***************************************************************************)
ScanAllOver == mainpc \in {"returned", "raised"}
Discovered == DOMAIN futures
ResultSet == {results[i] : i \in DOMAIN results}
StyleRaises == [AllOk EXCEPT !["style"] = "raise"]
TestsNotOk == [AllOk EXCEPT !["tests"] = "not_ok"]
EntryOf(d) == CHOOSE e \in {summary[i] : i \in DOMAIN summary} : e.path = d
Listed == {summary[i].path : i \in DOMAIN summary}

\* C1: once the collection loop of scan_all is over, the result list holds exactly
\* K ScanResults, one per discovered repository, whatever the pool size, the
\* completion order and the checks or report steps that failed.
C1_ExactlyKResults ==
    (ScanAllOver /\ Discovered # {}) =>
        /\ Len(results) = Cardinality(Discovered)
        /\ ResultSet = Discovered

C1_Witness ==
    /\ mainpc = "returned"
    /\ Cardinality(Discovered) = 3
    /\ jobs = 2
    /\ results[1] = <<nm_a, nm_x, nm_r>>
    /\ \E d \in Discovered : scan[d].error = "ReportError"
    /\ \E d \in Discovered : scan[d].ranChecks /\ scan[d].outcome = StyleRaises

\* C2: a repository's result map holds exactly the checks that did not raise for
\* it, each with the outcome of that check for this repository: when one check
\* raises, the checks after it still run, and no other repository's map changes.
ExpectedResults(outcome) ==
    [c \in {x \in CheckerNames : outcome[x] # "raise"} |->
        [name |-> c, is_ok |-> (outcome[c] = "ok")]]

C2_RaisingCheckOmitted ==
    \A d \in DOMAIN scan :
        scan[d].ranChecks =>
            /\ scan[d].results = ExpectedResults(scan[d].outcome)
            /\ (scan[d].outcome = StyleRaises =>
                    DOMAIN scan[d].results = CheckerNames \ {"style"})

C2_Witness ==
    \E d1, d2 \in DOMAIN scan :
        /\ d1 # d2
        /\ scan[d1].ranChecks /\ scan[d1].outcome = StyleRaises
        /\ DOMAIN scan[d1].results = CheckerNames \ {"style"}
        /\ scan[d2].ranChecks /\ scan[d2].outcome = AllOk
        /\ DOMAIN scan[d2].results = CheckerNames

\* C3 (as claimed): the order of the entries handed to the summary renderer is the
\* same for every order in which the scans of the same repositories can complete.
C3_OrderIndependentOfCompletion ==
    (ScanAllOver /\ summary # <<>>) =>
        \A order \in Perms(Discovered) : SortByOrgName(ReposData(order)) = summary

\* C4: has_errors of a scanned repository is true iff its error is not None or some
\* CheckResult of its result map has is_ok false (also for an empty result map).
HasErrorsSpec(error, res) == error # None \/ \E c \in DOMAIN res : ~res[c].is_ok

C4_HasErrorsIff ==
    /\ \A i \in DOMAIN summary :
          summary[i].has_errors =
              HasErrorsSpec(scan[summary[i].path].error, scan[summary[i].path].results)
    /\ \A d \in DOMAIN scan :
          (scan[d].report # <<>> /\ scan[d].error = None) =>
              scan[d].report[1] = HasErrorsSpec(None, scan[d].results)

C4_Witness ==
    /\ Len(summary) = 3
    /\ \E d \in Listed :   \* no error, all ok
          scan[d].error = None /\ scan[d].outcome = AllOk /\ ~EntryOf(d).has_errors
    /\ \E d \in Listed :   \* no error, one not ok
          scan[d].error = None /\ scan[d].outcome = TestsNotOk /\ EntryOf(d).has_errors
    /\ \E d \in Listed :   \* error, empty result map
          scan[d].error # None /\ scan[d].results = EmptyMap /\ EntryOf(d).has_errors

\* C5 (as claimed): the has_errors written into a repository's own report equals
\* the has_errors written for it into the summary of the same run.
C5_SameHasErrorsInBothReports ==
    \A i \in DOMAIN summary :
        scan[summary[i].path].report # <<>> =>
            scan[summary[i].path].report[1] = summary[i].has_errors

\* C6 (as claimed): once scan_all is over, every repository whose handling raised
\* (metadata extraction included) has a ScanResult with the error recorded, and
\* every repository has been scanned and collected.
C6_ExceptionRecordedAsError ==
    ScanAllOver =>
        \A d \in gitDirs :
            /\ d \in ResultSet
            /\ git[d].date = Garbage => scan[d].error # None

\* C7 (as claimed): with A passing all checks, B failing "tests" and C's metadata
\* extraction throwing, the summary lists all three, A without errors, B and C
\* with errors, in (organization, name) order.
RepoA == <<nm_a, nm_r>>
RepoB == <<nm_A, nm_r>>
RepoC == <<nm_a, nm_x, nm_r>>

C7_EndToEnd ==
    ( /\ mainpc = "returned"
      /\ gitDirs = {RepoA, RepoB, RepoC}
      /\ git[RepoA] = GitRecent /\ git[RepoB] = GitRecent /\ git[RepoC] = GitGarbage
      /\ scan[RepoA].ranChecks /\ scan[RepoA].outcome = AllOk /\ scan[RepoA].error = None
      /\ scan[RepoB].ranChecks /\ scan[RepoB].outcome = TestsNotOk
             /\ scan[RepoB].error = None )
    => /\ Listed = {RepoA, RepoB, RepoC}
       /\ Len(summary) = 3
       /\ ~EntryOf(RepoA).has_errors
       /\ EntryOf(RepoB).has_errors
       /\ EntryOf(RepoC).has_errors
       /\ \A i, j \in DOMAIN summary :
             i < j => ~KeyLess(SortKey(summary[j]), SortKey(summary[i]))

\* C8 (as claimed): a repository whose last commit is older than the cutoff is left
\* out by find_git_repos when a cutoff is passed, and the same repository is
\* returned when none is passed (since=None).
C8_CutoffOnlyWhenGiven ==
    (mainpc # "start" /\ rootExists) =>
        \A d \in gitDirs :
            git[d].date >= 0 =>
                /\ (sinceArg # NoDate /\ ParseDate(git[d].date) < sinceArg)
                      => d \notin Discovered
                /\ sinceArg = NoDate => d \in Discovered

\* C9 (as claimed): distinct discovered repositories have distinct output
\* subdirectories, so no two scans in progress write into the same one.
C9_DistinctOutputDirs ==
    /\ \A d1, d2 \in Discovered :
          d1 # d2 => OutDir(futures[d1]) # OutDir(futures[d2])
    /\ \A d1, d2 \in Running :
          d1 # d2 => OutDir(futures[d1]) # OutDir(futures[d2])

\* C10: the shared result list holds at most one entry per repository and only
\* results of scans that have completed; a step only ever appends to it: no entry
\* is removed, replaced, reordered or changed.
NoDuplicates(rs) == \A i, j \in DOMAIN rs : i # j => rs[i] # rs[j]

C10_ResultsAppendOnly ==
    /\ [](/\ NoDuplicates(results)
          /\ \A i \in DOMAIN results : scan[results[i]].pc = "collected")
    /\ [][/\ Len(results) <= Len(results')
          /\ SubSeq(results', 1, Len(results)) = results
          /\ \A i \in DOMAIN results :
                ScanResultOf(results[i])' = ScanResultOf(results[i])]_vars

C10_Witness ==
    /\ mainpc = "scanning"
    /\ Len(results) = 2
    /\ Running # {}

\* C11: at every moment at most `jobs` scans are in progress; the repositories to
\* scan are exactly the ones discovery returned, none is added once scan_all has
\* submitted them, every one of them is queued, being scanned or done, and a scan
\* in progress can always take its next step, whatever the other scans do.
QueueSet == {queue[i] : i \in DOMAIN queue}

C11_BoundedPoolFixedWork ==
    /\ [](/\ Cardinality(Running) <= jobs
          /\ (mainpc = "start" => DOMAIN scan = {})
          /\ (mainpc # "start" =>
                 /\ QueueSet \cup DOMAIN scan = Discovered
                 /\ QueueSet \cap DOMAIN scan = {}
                 /\ Len(queue) = Cardinality(QueueSet))
          /\ \A d \in Running :
                ENABLED (GenerateRepoReport(d) \/ Unlink(d) \/ Symlink(d)))
    /\ [][mainpc # "start" => futures' = futures]_vars

C11_Witness ==
    /\ jobs = 2
    /\ Cardinality(Running) = 2
    /\ queue # <<>>

\* C12 (as claimed): once scan_all has started on a non-empty list, every
\* repository's scan eventually completes and the summary report is eventually
\* generated (scan_all returns with summary.html written).
AllCollected == \A d \in Discovered : d \in DOMAIN scan /\ scan[d].pc = "collected"

Count(x, seq) == Cardinality({i \in DOMAIN seq : seq[i] = x})
Ended == {"returned", "raised", "collected"}

C13_NothingRetried ==
    /\ [](/\ mainpc # "start" =>
                \A d \in Discovered :
                    Count(d, queue) + (IF d \in DOMAIN scan THEN 1 ELSE 0) = 1
          /\ \A d \in DOMAIN scan : \A c \in CheckerNames :
                Count(c, scan[d].calls) = (IF scan[d].ranChecks THEN 1 ELSE 0))
    /\ [][\A d \in DOMAIN scan :
             /\ d \in DOMAIN scan'
             /\ Count(d, queue') = 0
             /\ scan'[d].calls = scan[d].calls
             /\ scan'[d].results = scan[d].results
             /\ scan[d].pc \in Ended =>
                   /\ scan'[d].pc \in Ended
                   /\ scan'[d].error = scan[d].error
                   /\ scan'[d].report = scan[d].report]_vars

C13_Witness ==
    /\ mainpc = "returned"
    /\ \E d1, d2 \in Discovered :
          /\ d1 # d2
          /\ scan[d1].outcome = StyleRaises /\ scan[d1].calls = Checkers
          /\ scan[d1].error = "ReportError" /\ scan[d1].pc = "collected"
          /\ scan[d2].error = "ImportError" /\ scan[d2].calls = <<>>
          /\ scan[d2].pc = "collected"

\* C14: if the root directory does not exist, find_git_repos yields no repository
\* and scan_all returns the empty list at once: no scan is submitted or started, the
\* output directory is not created, no report, link or summary is written.
C14_MissingRootAborts ==
    ~rootExists =>
        /\ mainpc \in {"start", "returned"}
        /\ \A walk \in WalkOrders(WalkedGitDirs(gitDirs, recursive)) :
              find_git_repos(walk) = <<>>
        /\ Discovered = {}
        /\ queue = <<>>
        /\ DOMAIN scan = {}
        /\ ~outputDirMade
        /\ \A o \in OutDirs : latest[o] \in {{}, {<<>>}}
        /\ results = <<>>
        /\ summary = <<>>

C14_Witness ==
    /\ ~rootExists
    /\ mainpc = "returned"
    /\ results = <<>>
    /\ ~outputDirMade

\* C15 (as claimed): in every ScanResult returned by scan_repo, error is not None
\* implies that the result map is empty.
Returned == {d \in DOMAIN scan : scan[d].pc \in {"returned", "collected"}}

C15_ErrorImpliesEmptyMap ==
    \A d \in Returned : scan[d].error # None => scan[d].results = EmptyMap

\* C15 (amended): a returned ScanResult carries an error exactly when its scan
\* aborted, either before any check ran (the import failed), and then the result
\* map is empty, or in report generation after all checks ran, and then the result
\* map still holds the result of every check that did not raise.
C15_ErrorMeansAborted ==
    \A d \in Returned :
        /\ scan[d].error # None =>
              \/ /\ ~scan[d].ranChecks
                 /\ scan[d].error = "ImportError"
                 /\ scan[d].results = EmptyMap
              \/ /\ scan[d].ranChecks
                 /\ scan[d].error \in {"ReportError", "FileNotFoundError"}
                 /\ scan[d].results = ExpectedResults(scan[d].outcome)
        /\ scan[d].error = None =>
              /\ scan[d].ranChecks
              /\ scan[d].report # <<>>
              /\ scan[d].results = ExpectedResults(scan[d].outcome)

C15_Witness ==
    \E d1, d2 \in Returned :
        /\ scan[d1].error = "ReportError"
        /\ DOMAIN scan[d1].results = CheckerNames
        /\ scan[d2].error = "ImportError"
        /\ scan[d2].results = EmptyMap

\* C16: when a git query for one metadata field fails (non-zero exit or empty
\* output), that field keeps its default (branch "main", remote_url "",
\* last_commit_date None) and the other fields are what their own queries answered;
\* constructing the GitRepo raises nothing, and discovery goes on: every other
\* visited repository with a recent enough commit is returned, with its metadata.
RepoAt(d) == GitRepo(d, NameOf(d), OrgOf(d), git[d])

C16_FailedQueryKeepsDefault ==
    /\ \A d \in gitDirs :
          git[d].date # Garbage =>
              /\ RepoAt(d).branch =
                     (IF git[d].branch = "fail" THEN "main" ELSE git[d].branch)
              /\ RepoAt(d).last_commit_date =
                     (IF git[d].date = Failed THEN NoDate ELSE ParseDate(git[d].date))
              /\ RepoAt(d).remote_url =
                     (IF git[d].remote = "fail" THEN "" ELSE git[d].remote)
    /\ (mainpc # "start" /\ rootExists) =>
          \A d \in WalkedGitDirs(gitDirs, recursive) :
              (git[d].date >= 0 /\ ParseDate(git[d].date) >= Since(sinceArg, now)) =>
                  /\ d \in Discovered
                  /\ futures[d] = RepoAt(d)

C16_Witness ==
    /\ mainpc = "scanning"
    /\ \E d1, d2, d3 \in gitDirs :
          /\ git[d1] = GitAllFail /\ d1 \notin Discovered
          /\ git[d2] = GitRemoteFail /\ d2 \in Discovered
          /\ futures[d2].remote_url = "" /\ futures[d2].branch = "dev"
          /\ futures[d2].last_commit_date = ParseDate(RecentCommit)
          /\ git[d3] = GitBranchFail /\ d3 \in Discovered
          /\ futures[d3].branch = "main" /\ futures[d3].remote_url = "url"

\* C17: when a cutoff is supplied, a repository whose last_commit_date is None (no
\* date could be read from git) is never returned by find_git_repos: it is not
\* submitted, not scanned, and has no result and no summary entry.
C17_NoDateExcludedUnderCutoff ==
    sinceArg # NoDate =>
        \A d \in gitDirs :
            RepoAt(d).last_commit_date = NoDate =>
                /\ \A walk \in WalkOrders(WalkedGitDirs(gitDirs, recursive)) :
                      \A i \in DOMAIN find_git_repos(walk) :
                          find_git_repos(walk)[i].path # d
                /\ d \notin Discovered
                /\ d \notin QueueSet
                /\ d \notin DOMAIN scan
                /\ d \notin ResultSet
                /\ d \notin Listed

C17_Witness ==
    /\ sinceArg = CallerCutoff
    /\ mainpc = "returned"
    /\ \E d1, d2, d3 \in gitDirs :
          /\ git[d1] = GitDateFail /\ d1 \notin Discovered
          /\ git[d2] = GitGarbage /\ d2 \notin Discovered
          /\ git[d3] = GitRecent /\ d3 \in Listed

\* C18: without `recursive`, no returned repository lies inside the directory of
\* another returned repository, and nothing below a directory that holds a .git is
\* returned; a repository that lies inside no other repository is still returned,
\* at any depth below the root, when its last commit is recent enough.
HasRepoAbove(d) == \E p \in gitDirs : IsProperPrefix(p, d)
RecentEnough(d) ==
    git[d].date >= 0 /\ ParseDate(git[d].date) >= Since(sinceArg, now)

C18_NonRecursiveNoNesting ==
    (~recursive /\ rootExists /\ mainpc # "start") =>
        /\ \A d1, d2 \in Discovered : ~IsProperPrefix(d1, d2)
        /\ \A d \in gitDirs : HasRepoAbove(d) => d \notin Discovered
        /\ \A d \in gitDirs :
              (~HasRepoAbove(d) /\ RecentEnough(d)) => d \in Discovered

C18_Witness ==
    /\ ~recursive
    /\ mainpc = "scanning"
    /\ gitDirs = {<<nm_a, nm_r>>, <<nm_a, nm_r, nm_x>>, <<nm_a, nm_x, nm_r>>}
    /\ \A d \in gitDirs : git[d] = GitRecent
    /\ Discovered = {<<nm_a, nm_r>>, <<nm_a, nm_x, nm_r>>}

\* C19: every discovered repository has as org the first segment of its path
\* relative to the root, or the empty string when it is a direct child of the root,
\* and as name its own directory name, the last segment, at every depth.
C19_OrgAndName ==
    \A d \in Discovered :
        /\ futures[d].path = d
        /\ futures[d].name = d[Len(d)]
        /\ futures[d].org = (IF Len(d) = 1 THEN <<>> ELSE d[1])

C19_Witness ==
    /\ Discovered = {<<nm_b>>, <<nm_A, nm_r>>, <<nm_a, nm_x, nm_r>>}
    /\ futures[<<nm_b>>].org = <<>> /\ futures[<<nm_b>>].name = nm_b
    /\ futures[<<nm_A, nm_r>>].org = nm_A /\ futures[<<nm_A, nm_r>>].name = nm_r
    /\ futures[<<nm_a, nm_x, nm_r>>].org = nm_a
    /\ futures[<<nm_a, nm_x, nm_r>>].name = nm_r

\* C20: the path, name, org, branch, remote_url and last_commit_date of a repository
\* are the ones discovery gave it: no step of scan_all changes them, the repository
\* of every ScanResult, returned or still in progress, carries them, and so does
\* the repository's entry in the summary.
C20_RepoUnchangedAfterDiscovery ==
    /\ [](/\ \A d \in Discovered :
                /\ futures[d] = RepoAt(d)
                /\ d \in DOMAIN scan => ScanResultOf(d).repo = RepoAt(d)
          /\ \A i \in DOMAIN summary :
                LET e == summary[i]
                    r == RepoAt(e.path)
                IN  /\ e.name = r.name /\ e.org = r.org /\ e.branch = r.branch
                    /\ e.remote_url = r.remote_url)
    /\ [][\A d \in Discovered : d \in Discovered' /\ futures'[d] = futures[d]]_vars

C20_Witness ==
    /\ mainpc = "returned"
    /\ Len(summary) = 2
    /\ \E d1, d2 \in ResultSet :
          /\ scan[d1].error = "FileNotFoundError"
          /\ scan[d2].error = None /\ scan[d2].report # <<>>
          /\ ScanResultOf(d1).repo.branch = "dev"
          /\ ScanResultOf(d2).repo.last_commit_date = ParseDate(RecentCommit)


\* C21: every scan has its own StyleChecker, so whatever the interleaving the
\* CheckResult of a repository holds exactly the issues found in that repository
\* (none of another one, none lost), is_ok says whether there are any, and a check
\* that raised has left no entry in the result map.
C21_NoLeakBetweenRepositories ==
    /\ \A d1, d2 \in DOMAIN styleScan :
          d1 # d2 => styleScan[d1].checker # styleScan[d2].checker
    /\ \A d \in DOMAIN styleScan :
          /\ styleScan[d].pc = "raised" => styleScan[d].result = <<>>
          /\ styleScan[d].result # <<>> =>
                /\ styleScan[d].pc = "returned"
                /\ \A i \in DOMAIN styleScan[d].result[1].issues :
                      styleScan[d].result[1].issues[i].file = d
                /\ styleScan[d].result[1].issues = styleScan[d].found
                /\ styleScan[d].result[1].is_ok = (styleScan[d].found = <<>>)

C21_Witness ==
    \E d1, d2, d3 \in DOMAIN styleScan :
        /\ d1 # d2
        /\ styleScan[d1].pc = "returned" /\ Len(styleScan[d1].result[1].issues) = 2
        /\ styleScan[d2].pc = "returned" /\ Len(styleScan[d2].result[1].issues) = 1
        /\ styleScan[d3].pc = "raised" /\ styleScan[d3].found # <<>>


\* C22: when no entry of the scanned directory is a Git repository the command ends
\* with exit status 1 and the message "No Git repositories found", no repository
\* has been analysed, no report directory and no summary file has been written.
C22_NoReposFails ==
    (orgRun.pc = "exit" /\ \A n \in DOMAIN orgRun.entries : orgRun.entries[n] # "repo")
        => /\ orgRun.exit = 1
           /\ orgRun.message = "No Git repositories found"
           /\ orgRun.analysed = <<>>
           /\ orgRun.reports = {}
           /\ orgRun.summary = <<>>

C22_Witness ==
    /\ orgRun.pc = "exit"
    /\ DOMAIN orgRun.entries = {"docs", "r1"}
    /\ \A n \in DOMAIN orgRun.entries : orgRun.entries[n] = "plain"
    /\ orgRun.exit = 1

\* C23: a run over a directory with repositories analyses every repository once, has
\* written a report directory for exactly those whose analysis succeeded, and ends
\* with exit status 0 and one summary whose total_repositories is the number of
\* report directories written.
C23_OrgLoopAndSummary ==
    (orgRun.pc = "exit" /\ OrgRepoNames(orgRun.entries) # {})
        => /\ Len(orgRun.analysed) = Cardinality(OrgRepoNames(orgRun.entries))
           /\ {orgRun.analysed[k] : k \in DOMAIN orgRun.analysed}
                  = OrgRepoNames(orgRun.entries)
           /\ orgRun.reports
                  = {orgRun.all_repos_status[k].name : k \in DOMAIN orgRun.all_repos_status}
           /\ orgRun.exit = 0
           /\ Len(orgRun.summary) = 1
           /\ orgRun.summary[1].total_repositories = Cardinality(orgRun.reports)


\* C24 (as claimed): in recursive mode find_git_repos returns exactly the directories
\* at or below the root that hold a .git and whose last commit is not older than the
\* cutoff, the root itself and repositories inside repositories included, each once.
C24_RecursiveFindsAll ==
    (recursive /\ rootExists /\ mainpc # "start") =>
        /\ Discovered = {d \in gitDirs : git[d].date >= Since(sinceArg, now)}
        /\ Len(queue) = Cardinality(Discovered)


\* C25 (as claimed): under a supplied cutoff every repository whose last commit was
\* made at or after the cutoff instant is returned by find_git_repos, also when the
\* commit was made on the cutoff's day at a later (or the same) time of day.
C25_CommitAtOrAfterCutoffKept ==
    (sinceArg # NoDate /\ rootExists /\ mainpc # "start") =>
        \A d \in gitDirs : git[d].date >= sinceArg => d \in Discovered


\* C26: in a run that submitted scans the summary is generated once: only when
\* every submitted scan has finished (its report step included) and has been
\* collected, never a second time, and with exactly one entry for each ScanResult
\* of the list scan_all returns; a run that returns has generated it.
C26_SummaryOnceAfterAllScans ==
    /\ [](summary # <<>> =>
             /\ ScanAllOver
             /\ AllCollected
             /\ Len(summary) = Len(results)
             /\ \A i \in DOMAIN results :
                   Cardinality({k \in DOMAIN summary :
                                  summary[k] = SummaryEntry(ScanResultOf(results[i]))}) = 1)
    /\ []((mainpc = "returned" /\ Discovered # {}) => summary # <<>>)
    /\ [][summary' # summary =>
             /\ summary = <<>>
             /\ mainpc = "scanning"
             /\ mainpc' # "scanning"
             /\ \A d \in Discovered : scan[d].pc = "collected"]_vars

C26_Witness ==
    /\ mainpc = "returned"
    /\ Len(summary) = 3
    /\ \E d \in Discovered : scan[d].error = "ReportError"
    /\ \E d \in Discovered : scan[d].error = None


\* C27 (as claimed): when scan_all has returned, the report_path of every entry of
\* the summary, <org>/<name>/latest.html, is a link to a report that a scan of this
\* run wrote for that entry's repository.
C27_ReportPathRefersToOwnReport ==
    mainpc = "returned" =>
        \A i \in DOMAIN summary :
            /\ summary[i].report_path = OutDir(futures[summary[i].path]) \o <<"latest.html">>
            /\ latest[OutDir(futures[summary[i].path])] = {summary[i].path}
            /\ scan[summary[i].path].report # <<>>


\* C28 (as claimed): for the same log text the three parsers return the same
\* sequence of commits, with the same hashes in the same order and the same changed
\* file paths, also for a log with a malformed header or a file name with a tab.
C28_ParsersAgree ==
    parseRun.pc = "done" =>
        /\ parseRun.out.simple = parseRun.out.repofacts
        /\ parseRun.out.ai = parseRun.out.repofacts

\* what C29 describes, read off the log alone
IsHeader(k) == parseRun.log[k].brace
IsNumstat(k) == ~parseRun.log[k].brace /\ Len(parseRun.log[k].fields) >= 3
ParsedHeaders == {k \in DOMAIN parseRun.log : IsHeader(k) /\ parseRun.log[k].json = "ok"}
\* the nearest header line before line j (0 when there is none)
HeaderBefore(j) ==
    IF \E k \in 1..(j - 1) : IsHeader(k)
    THEN CHOOSE k \in 1..(j - 1) : IsHeader(k) /\ \A m \in (k + 1)..(j - 1) : ~IsHeader(m)
    ELSE 0
NumstatsOf(k) == {j \in DOMAIN parseRun.log : IsNumstat(j) /\ HeaderBefore(j) = k}
Ascending(S) ==
    CHOOSE f \in [1..Cardinality(S) -> S] : \A a, b \in 1..Cardinality(S) : a < b => f[a] < f[b]
ExpectedCommit(k) ==
    [hash |-> parseRun.log[k].hash,
     files |-> [n \in 1..Cardinality(NumstatsOf(k)) |->
                   <<parseRun.log[Ascending(NumstatsOf(k))[n]].fields[3]>>]]
ExpectedCommits ==
    [n \in 1..Cardinality(ParsedHeaders) |-> ExpectedCommit(Ascending(ParsedHeaders)[n])]

\* C29: _parse_git_log returns one commit per header line that parses, in input
\* order, each with the numstat lines whose nearest preceding header line it is;
\* a numstat line after a failed header or before any header is in no commit, and
\* while the lines are read no commit is emitted twice or changed after emission.
C29_ParseGitLogStateMachine ==
    /\ [](parseRun.pc = "done" => parseRun.out.repofacts = ExpectedCommits)
    /\ [](parseRun.repofacts.current = <<>> =>
             (parseRun.i = 1 \/ HeaderBefore(parseRun.i) \notin ParsedHeaders))
    /\ [][/\ Len(parseRun.repofacts.commits) <= Len(parseRun.repofacts.commits')
          /\ Len(parseRun.repofacts.commits') <= Len(parseRun.repofacts.commits) + 1
          /\ SubSeq(parseRun.repofacts.commits', 1, Len(parseRun.repofacts.commits))
                 = parseRun.repofacts.commits]_vars

C29_Witness ==
    /\ parseRun.pc = "done"
    /\ parseRun.log = <<NumstatLine, HeaderLine("h1"), MalformedHeader, NumstatLine>>
    /\ parseRun.out.repofacts = <<[hash |-> "h1", files |-> <<>>]>>


\* C30: calculate_health_score returns a value in 0..100 for every commit list,
\* contributor count and coverage value; the activity bonus is at most 20, the
\* coverage bonus at most 20, the contributor bonus at most 10, and the deduction
\* for fixes among the 10 most recent commits at most 20 (and never negative).
C30_ScoreInRange ==
    /\ ActivityBonus(healthRun.commits) <= 20 * Fifths
    /\ CoverageBonus(healthRun.coverage) <= 20 * Fifths
    /\ ContributorBonus(healthRun.num_contributors) <= 10 * Fifths
    /\ FixDeduction(healthRun.commits) \in 0..(20 * Fifths)
    /\ healthRun.pc = "returned" =>
          /\ healthRun.score >= 0
          /\ healthRun.score <= 100 * Fifths

C30_Witness ==
    /\ healthRun.pc = "returned"
    /\ Len(healthRun.commits) > RecentWindow
    /\ \A k \in DOMAIN healthRun.commits : healthRun.commits[k].is_fix
    /\ FixDeduction(healthRun.commits) = 20 * Fifths
    /\ ActivityBonus(healthRun.commits) = 20 * Fifths
    /\ healthRun.coverage > 100
    /\ healthRun.score = 100 * Fifths

C30_WitnessFloor ==
    /\ healthRun.pc = "returned"
    /\ healthRun.coverage < 0
    /\ healthRun.score = 0

====
